---------------------------- MODULE Spec2Model ----------------------------
(***************************************************************************)
(* The escrow marketplace (contracts/ZKMarketplace.sol, the reputation     *)
(* variant) together with the arbitration contract                         *)
(* (contracts/DisputeResolution.sol), as one sequential state machine:     *)
(* every transaction is one atomic step, a reverted transaction is no      *)
(* step at all.  Values are in wei, scaled so that ValueUnit stands for    *)
(* the 0.01 ether of the initial dispute fee.                              *)
(***************************************************************************)
EXTENDS Integers, Sequences, FiniteSets, TLC

\* ------------------------------------------------------------------ bounds
MaxOrders == 2
MaxDisputes == 2
MaxEvidence == 2
MaxValueUnits == 1
ValueUnit == 40
MaxDonations == 1
MaxTx == 8

\* ------------------------------------------------------------- addresses
ZeroAddress == 0
Owner == 1
Alice == 2
Bob == 3
Users == {Owner, Alice, Bob}
\* The deployer administers and arbitrates; the two others trade with each
\* other (createOrder and fundOrder are called by them).  Every other
\* function is called by every user.
Traders == {Alice, Bob}
Addresses == {ZeroAddress} \cup Users

\* ------------------------------------------------------------- constants
MINIMUM_SELLER_REPUTATION == 0
REPUTATION_PER_SUCCESS == 10
REPUTATION_PER_FAILURE == -15
INITIAL_REPUTATION == 50
OwnerInitialReputation == 100
MinScore == -100
MaxScore == 1000
InitialPlatformFee == 250
FeeDenominator == 10000
InitialDisputeFee == ValueUnit
Now == 1

OrderStatus == {"Created", "Funded", "Confirmed", "Disputed", "Resolved", "Cancelled"}
DisputeStatus == {"Open", "UnderReview", "Resolved", "Cancelled"}
Winner == {"None", "Buyer", "Seller"}

\* The ids the contracts are called with: the ids createOrder issues within
\* the bound, each of which can be named in a call before it is issued.
OrderIds == 0..(MaxOrders - 1)
DisputeIds == 0..(MaxDisputes - 1)
Values == {k * ValueUnit : k \in 0..MaxValueUnits}
Strings == {"", "x"}

VARIABLES
    nextOrderId, orders, reputations, platformFeePercent, feeRecipient,
    marketBalance,
    nextDisputeId, disputes, orderToDispute, disputeEvidence,
    authorizedArbitrators, mainArbitrator, disputeFee,
    arbitratorResolutionCount, disputeBalance,
    transfers, feeRefunds, donations, txCount, lastCall, everFunded,
    \* ZKMarketplace_Permissioned
    owner, approvedSellers, approvedBuyers, totalApprovedSellers,
    totalApprovedBuyers,
    \* the tables the indexer writes
    dbOrders, dbUsers, dbEvents, dbReputationHistory

marketVars == <<nextOrderId, orders, reputations, platformFeePercent,
                feeRecipient, marketBalance>>
disputeVars == <<nextDisputeId, disputes, orderToDispute, disputeEvidence,
                 authorizedArbitrators, mainArbitrator, disputeFee,
                 arbitratorResolutionCount, disputeBalance>>
\* The permission state of the permissioned variant of the marketplace.
permissionVars == <<owner, approvedSellers, approvedBuyers,
                    totalApprovedSellers, totalApprovedBuyers>>
\* The rows of the orders, users, events and reputation_history tables,
\* without their generated ids and timestamps.
indexerVars == <<dbOrders, dbUsers, dbEvents, dbReputationHistory>>
vars == <<marketVars, disputeVars, permissionVars, indexerVars, transfers,
         feeRefunds, donations, txCount, lastCall, everFunded>>

\* ------------------------------------------------------- default records
\* Solidity's zero value of a mapping slot that was never written.
EmptyOrder ==
    [seller |-> ZeroAddress, buyer |-> ZeroAddress, amount |-> 0,
     description |-> "", status |-> "Created"]

EmptyReputation ==
    [score |-> 0, successfulOrders |-> 0, failedOrders |-> 0,
     totalOrders |-> 0, isVerified |-> FALSE]

EmptyDispute ==
    [orderId |-> 0, disputer |-> ZeroAddress, reason |-> "",
     evidenceHash |-> "", status |-> "Open", winner |-> "None",
     resolution |-> "", resolvedAt |-> 0, disputeFee |-> 0]

Transfer(from, to, amount) == [from |-> from, to |-> to, amount |-> amount]

CallRecord(fn, sender, id, ok) ==
    [fn |-> fn, sender |-> sender, id |-> id, ok |-> ok]

\* ------------------------------------------------------------ reputation
\* The score left as computed, without the cap.
Unclamped(score) == score

Clamp(score) ==
    IF score < MinScore THEN MinScore
    ELSE IF score > MaxScore THEN MaxScore
    ELSE score

UpdateReputation(reps, user, change) ==
    [reps EXCEPT ![user].score = Clamp(reps[user].score + change)]

InitializeIfNew(reps, user) ==
    IF reps[user].totalOrders = 0
    THEN [reps EXCEPT ![user].score = INITIAL_REPUTATION]
    ELSE reps

\* ------------------------------------------------------------ fee policy
\* The fee rounded up instead of truncated.
PlatformFeeRoundedUp(amount, feePercent) ==
    (amount * feePercent + FeeDenominator - 1) \div FeeDenominator

PlatformFee(amount, feePercent) == (amount * feePercent) \div FeeDenominator

SellerAmount(amount, feePercent) == amount - PlatformFee(amount, feePercent)

\* ------------------------------------------------------------------ init
\* The constructor of the permissioned variant approves its deployer.
PermissionedInit ==
    /\ owner = Owner
    /\ approvedSellers = {Owner}
    /\ approvedBuyers = {Owner}
    /\ totalApprovedSellers = 1
    /\ totalApprovedBuyers = 1

\* The schema leaves the tables empty but for the default user.
IndexerInit ==
    /\ dbOrders = {}
    /\ dbUsers = {[address |-> ZeroAddress, reputation_score |-> 100,
                   is_verified |-> TRUE]}
    /\ dbEvents = {}
    /\ dbReputationHistory = <<>>

Init ==
    /\ nextOrderId = 0
    /\ orders = [o \in OrderIds |-> EmptyOrder]
    /\ reputations = [a \in Addresses |->
         IF a = Owner
         THEN [EmptyReputation EXCEPT !.score = OwnerInitialReputation,
                                      !.isVerified = TRUE]
         ELSE EmptyReputation]
    /\ platformFeePercent = InitialPlatformFee
    /\ feeRecipient = Owner
    /\ marketBalance = 0
    /\ nextDisputeId = 0
    /\ disputes = [d \in DisputeIds |-> EmptyDispute]
    /\ orderToDispute = [o \in OrderIds |-> 0]
    /\ disputeEvidence = [d \in DisputeIds |-> <<>>]
    /\ authorizedArbitrators = {Owner}
    /\ mainArbitrator = Owner
    /\ disputeFee = InitialDisputeFee
    /\ arbitratorResolutionCount = [a \in Users |-> 0]
    /\ disputeBalance = 0
    /\ transfers = <<>>
    /\ feeRefunds = [d \in DisputeIds |-> 0]
    /\ donations = 0
    /\ txCount = 0
    /\ lastCall = CallRecord("constructor", Owner, 0, TRUE)
    /\ everFunded = {}
    /\ PermissionedInit
    /\ IndexerInit

\* Every transaction that is not reverted is one step; the model follows the
\* first MaxTx of them.
\* lastCall names the transaction of the step: the function, msg.sender, the
\* order or dispute id it was called with, and whether it was executed (ok)
\* or reverted; for setPlatformFee the id is the fee it was called with.
\* everFunded keeps the order ids fundOrder has been executed on.
Executed(fn, sender, id) ==
    /\ txCount < MaxTx
    /\ txCount' = txCount + 1
    /\ lastCall' = CallRecord(fn, sender, id, TRUE)
    /\ everFunded' = IF fn = "fundOrder" THEN everFunded \cup {id}
                     ELSE everFunded

\* A transaction of the reputation variant or of the dispute contract.
Tx(fn, sender, id) ==
    /\ Executed(fn, sender, id)
    /\ UNCHANGED <<permissionVars, indexerVars>>

\* ----------------------------------------------------------- marketplace
\* The requires of onlyTrustedSeller and createOrder.
CreateOrderAccepted(sender, value, description) ==
    /\ InitializeIfNew(reputations, sender)[sender].score
          >= MINIMUM_SELLER_REPUTATION
    /\ value > 0
    /\ description # ""

CreateOrder(sender, value, description) ==
    LET reps == InitializeIfNew(reputations, sender)
        orderId == nextOrderId
    IN  /\ nextOrderId < MaxOrders
        /\ CreateOrderAccepted(sender, value, description)
        /\ reputations' = reps
        /\ nextOrderId' = nextOrderId + 1
        /\ orders' = [orders EXCEPT ![orderId] =
             [seller |-> sender, buyer |-> ZeroAddress, amount |-> value,
              description |-> description, status |-> "Created"]]
        /\ marketBalance' = marketBalance + value
        /\ Tx("createOrder", sender, orderId)
        /\ transfers' = <<>>
        /\ UNCHANGED <<platformFeePercent, feeRecipient, disputeVars,
                       feeRefunds, donations>>

\* fundOrder without its check of the payment.
FundOrderAnyPayment(sender, orderId, value) ==
    /\ orders[orderId].status = "Created"
    /\ sender # orders[orderId].seller

FundOrderAccepted(sender, orderId, value) ==
    /\ orders[orderId].status = "Created"
    /\ value = orders[orderId].amount
    /\ sender # orders[orderId].seller

FundOrder(sender, orderId, value) ==
    LET order == orders[orderId]
    IN  /\ FundOrderAccepted(sender, orderId, value)
        /\ reputations' = InitializeIfNew(reputations, sender)
        /\ orders' = [orders EXCEPT ![orderId].buyer = sender,
                                    ![orderId].status = "Funded"]
        /\ marketBalance' = marketBalance + value
        /\ Tx("fundOrder", sender, orderId)
        /\ transfers' = <<>>
        /\ UNCHANGED <<nextOrderId, platformFeePercent, feeRecipient,
                       disputeVars, feeRefunds, donations>>

\* confirmReceipt without its check of the caller.
ConfirmReceiptByAnyone(sender, orderId) ==
    /\ orders[orderId].status = "Funded"
    /\ marketBalance >= orders[orderId].amount

\* The requires of confirmReceipt; its two transfers revert the call when the
\* contract does not hold their sum.
ConfirmReceiptAccepted(sender, orderId) ==
    /\ orders[orderId].status = "Funded"
    /\ sender = orders[orderId].buyer
    /\ marketBalance >= orders[orderId].amount

\* The reputation writes of confirmReceipt with the same credit for both.
ConfirmReputationsSymmetric(reps, order) ==
    LET r1 == UpdateReputation(reps, order.seller, REPUTATION_PER_SUCCESS)
        r2 == UpdateReputation(r1, order.buyer, REPUTATION_PER_SUCCESS)
        r3 == [r2 EXCEPT ![order.seller].successfulOrders = @ + 1]
        r4 == [r3 EXCEPT ![order.seller].totalOrders = @ + 1]
    IN  [r4 EXCEPT ![order.buyer].totalOrders = @ + 1]

\* The reputation writes of confirmReceipt.
ConfirmReputations(reps, order) ==
    LET r1 == UpdateReputation(reps, order.seller, REPUTATION_PER_SUCCESS)
        r2 == UpdateReputation(r1, order.buyer, REPUTATION_PER_SUCCESS \div 2)
        r3 == [r2 EXCEPT ![order.seller].successfulOrders = @ + 1]
        r4 == [r3 EXCEPT ![order.seller].totalOrders = @ + 1]
    IN  [r4 EXCEPT ![order.buyer].totalOrders = @ + 1]

ConfirmReceipt(sender, orderId) ==
    LET order == orders[orderId]
        platformFee == PlatformFee(order.amount, platformFeePercent)
        sellerAmount == SellerAmount(order.amount, platformFeePercent)
    IN  /\ ConfirmReceiptAccepted(sender, orderId)
        /\ orders' = [orders EXCEPT ![orderId].status = "Confirmed"]
        /\ reputations' = ConfirmReputations(reputations, order)
        /\ marketBalance' = marketBalance - sellerAmount - platformFee
        /\ Tx("confirmReceipt", sender, orderId)
        /\ transfers' = << Transfer("market", order.seller, sellerAmount),
                           Transfer("market", feeRecipient, platformFee) >>
        /\ UNCHANGED <<nextOrderId, platformFeePercent, feeRecipient,
                       disputeVars, feeRefunds, donations>>

CancelOrderAccepted(sender, orderId) ==
    /\ sender = orders[orderId].seller
    /\ orders[orderId].status = "Created"
    /\ marketBalance >= orders[orderId].amount

CancelOrder(sender, orderId) ==
    LET order == orders[orderId]
    IN  /\ CancelOrderAccepted(sender, orderId)
        /\ orders' = [orders EXCEPT ![orderId].status = "Cancelled"]
        /\ marketBalance' = marketBalance - order.amount
        /\ Tx("cancelOrder", sender, orderId)
        /\ transfers' = << Transfer("market", order.seller, order.amount) >>
        /\ UNCHANGED <<nextOrderId, reputations, platformFeePercent,
                       feeRecipient, disputeVars, feeRefunds, donations>>

MarketEmergencyWithdraw(sender) ==
    /\ sender = Owner
    /\ marketBalance' = 0
    /\ Tx("marketEmergencyWithdraw", sender, 0)
    /\ transfers' = << Transfer("market", Owner, marketBalance) >>
    /\ UNCHANGED <<nextOrderId, orders, reputations, platformFeePercent,
                   feeRecipient, disputeVars, feeRefunds, donations>>

\* ---------------------------------------------------- dispute resolution
OnlyArbitrator(sender) ==
    sender \in authorizedArbitrators \/ sender = mainArbitrator

DisputeExists(disputeId) == disputeId < nextDisputeId

NoDisputeRecorded(orderId) ==
    \/ orderToDispute[orderId] = 0
    \/ disputes[orderToDispute[orderId]].status = "Cancelled"

\* The participant check left out.
IsParticipantDropped(sender, order) == TRUE

IsParticipant(sender, order) ==
    sender = order.seller \/ sender = order.buyer

\* The status check widened to Confirmed orders.
DisputableStatusWidened(status) == status \in {"Funded", "Confirmed"}

DisputableStatus(status) == status = "Funded"

\* The requires of raiseDispute.
RaiseDisputeAccepted(sender, orderId, value, reason, evidenceHash) ==
    /\ value >= disputeFee
    /\ reason # ""
    /\ evidenceHash # ""
    /\ DisputableStatus(orders[orderId].status)
    /\ IsParticipant(sender, orders[orderId])
    /\ NoDisputeRecorded(orderId)
    /\ orders[orderId].amount > 0

RaiseDispute(sender, orderId, value, reason, evidenceHash) ==
    LET order == orders[orderId]
        disputeId == nextDisputeId
    IN  /\ nextDisputeId < MaxDisputes
        /\ RaiseDisputeAccepted(sender, orderId, value, reason, evidenceHash)
        /\ nextDisputeId' = nextDisputeId + 1
        /\ disputes' = [disputes EXCEPT ![disputeId] =
             [orderId |-> orderId, disputer |-> sender, reason |-> reason,
              evidenceHash |-> evidenceHash, status |-> "Open",
              winner |-> "None", resolution |-> "", resolvedAt |-> 0,
              disputeFee |-> value]]
        /\ orderToDispute' = [orderToDispute EXCEPT ![orderId] = disputeId]
        /\ disputeEvidence' = [disputeEvidence EXCEPT ![disputeId] =
             Append(@, [submitter |-> sender, evidenceHash |-> evidenceHash,
                        description |-> reason])]
        /\ disputeBalance' = disputeBalance + value
        /\ Tx("raiseDispute", sender, orderId)
        /\ transfers' = <<>>
        /\ UNCHANGED <<marketVars, authorizedArbitrators, mainArbitrator,
                       disputeFee, arbitratorResolutionCount, feeRefunds,
                       donations>>

\* The status check of submitEvidence left out.
EvidenceOpenDropped(status) == TRUE

EvidenceOpen(status) == status \in {"Open", "UnderReview"}

\* The requires of submitEvidence (the description is not checked).
SubmitEvidenceAccepted(sender, disputeId, evidenceHash, description) ==
    /\ DisputeExists(disputeId)
    /\ EvidenceOpen(disputes[disputeId].status)
    /\ IsParticipant(sender, orders[disputes[disputeId].orderId])
    /\ evidenceHash # ""

SubmitEvidence(sender, disputeId, evidenceHash, description) ==
    LET dispute == disputes[disputeId]
        order == orders[dispute.orderId]
    IN  /\ Len(disputeEvidence[disputeId]) < MaxEvidence
        /\ SubmitEvidenceAccepted(sender, disputeId, evidenceHash, description)
        /\ disputeEvidence' = [disputeEvidence EXCEPT ![disputeId] =
             Append(@, [submitter |-> sender, evidenceHash |-> evidenceHash,
                        description |-> description])]
        /\ Tx("submitEvidence", sender, disputeId)
        /\ transfers' = <<>>
        /\ UNCHANGED <<marketVars, nextDisputeId, disputes, orderToDispute,
                       authorizedArbitrators, mainArbitrator, disputeFee,
                       arbitratorResolutionCount, disputeBalance, feeRefunds,
                       donations>>

\* The same check left out: a resolved dispute could be written again.
NotResolvedDropped(status) == TRUE

NotResolved(status) == status # "Resolved"

\* The requires of resolveDispute; its transfers revert the call when the
\* dispute contract does not hold their sum.
ResolveDisputeAccepted(sender, disputeId, winner, resolution) ==
    /\ OnlyArbitrator(sender)
    /\ DisputeExists(disputeId)
    /\ winner # "None"
    /\ resolution # ""
    /\ NotResolved(disputes[disputeId].status)
    /\ disputeBalance >= orders[disputes[disputeId].orderId].amount
                            + disputes[disputeId].disputeFee

ResolveDispute(sender, disputeId, winner, resolution) ==
    LET dispute == disputes[disputeId]
        order == orders[dispute.orderId]
        winnerAddress == IF winner = "Buyer" THEN order.buyer ELSE order.seller
        refund == IF dispute.disputeFee > 0
                  THEN << Transfer("dispute", dispute.disputer, dispute.disputeFee) >>
                  ELSE <<>>
    IN  /\ ResolveDisputeAccepted(sender, disputeId, winner, resolution)
        /\ disputes' = [disputes EXCEPT ![disputeId].status = "Resolved",
                                        ![disputeId].winner = winner,
                                        ![disputeId].resolution = resolution,
                                        ![disputeId].resolvedAt = Now]
        /\ disputeBalance' = disputeBalance - order.amount - dispute.disputeFee
        /\ Tx("resolveDispute", sender, disputeId)
        /\ transfers' = << Transfer("dispute", winnerAddress, order.amount) >> \o refund
        /\ feeRefunds' = [feeRefunds EXCEPT ![disputeId] = @ + Len(refund)]
        /\ arbitratorResolutionCount' =
             [arbitratorResolutionCount EXCEPT ![sender] = @ + 1]
        /\ UNCHANGED <<marketVars, nextDisputeId, orderToDispute,
                       disputeEvidence, authorizedArbitrators, mainArbitrator,
                       disputeFee, donations>>

UpdateDisputeStatusAccepted(sender, disputeId) ==
    /\ OnlyArbitrator(sender)
    /\ DisputeExists(disputeId)
    /\ NotResolved(disputes[disputeId].status)

UpdateDisputeStatus(sender, disputeId, newStatus) ==
    LET dispute == disputes[disputeId]
    IN  /\ UpdateDisputeStatusAccepted(sender, disputeId)
        /\ disputes' = [disputes EXCEPT ![disputeId].status = newStatus]
        /\ Tx("updateDisputeStatus", sender, disputeId)
        /\ transfers' = <<>>
        /\ UNCHANGED <<marketVars, nextDisputeId, orderToDispute,
                       disputeEvidence, authorizedArbitrators, mainArbitrator,
                       disputeFee, arbitratorResolutionCount, disputeBalance,
                       feeRefunds, donations>>

DisputeEmergencyWithdraw(sender) ==
    /\ sender = Owner
    /\ disputeBalance' = 0
    /\ Tx("disputeEmergencyWithdraw", sender, 0)
    /\ transfers' = << Transfer("dispute", Owner, disputeBalance) >>
    /\ UNCHANGED <<marketVars, nextDisputeId, disputes, orderToDispute,
                   disputeEvidence, authorizedArbitrators, mainArbitrator,
                   disputeFee, arbitratorResolutionCount, feeRefunds, donations>>

\* receive(): anyone may send value to the dispute contract.
Receive(sender, value) ==
    /\ donations < MaxDonations
    /\ value > 0
    /\ donations' = donations + 1
    /\ disputeBalance' = disputeBalance + value
    /\ Tx("receive", sender, 0)
    /\ transfers' = <<>>
    /\ UNCHANGED <<marketVars, nextDisputeId, disputes, orderToDispute,
                   disputeEvidence, authorizedArbitrators, mainArbitrator,
                   disputeFee, arbitratorResolutionCount, feeRefunds>>

\* ------------------------------------------------------------------ next
Next ==
    \/ \E s \in Traders, v \in Values, t \in Strings : CreateOrder(s, v, t)
    \/ \E s \in Traders, o \in OrderIds, v \in Values : FundOrder(s, o, v)
    \/ \E s \in Users, o \in OrderIds : ConfirmReceipt(s, o)
    \/ \E s \in Users, o \in OrderIds : CancelOrder(s, o)
    \/ \E s \in Users : MarketEmergencyWithdraw(s)
    \/ \E s \in Users, o \in OrderIds, v \in Values, r \in Strings, h \in Strings :
         RaiseDispute(s, o, v, r, h)
    \/ \E s \in Users, d \in DisputeIds, h \in Strings, t \in Strings :
         SubmitEvidence(s, d, h, t)
    \/ \E s \in Users, d \in DisputeIds, w \in Winner, r \in Strings :
         ResolveDispute(s, d, w, r)
    \/ \E s \in Users, d \in DisputeIds, n \in DisputeStatus :
         UpdateDisputeStatus(s, d, n)
    \/ \E s \in Users : DisputeEmergencyWithdraw(s)
    \/ \E s \in Users, v \in Values : Receive(s, v)

Spec == Init /\ [][Next]_vars

\* Both contracts without the owner's emergencyWithdraw.
TradingNext ==
    \/ \E s \in Traders, v \in Values, t \in Strings : CreateOrder(s, v, t)
    \/ \E s \in Traders, o \in OrderIds, v \in Values : FundOrder(s, o, v)
    \/ \E s \in Users, o \in OrderIds : ConfirmReceipt(s, o)
    \/ \E s \in Users, o \in OrderIds : CancelOrder(s, o)
    \/ \E s \in Users, o \in OrderIds, v \in Values, r \in Strings, h \in Strings :
         RaiseDispute(s, o, v, r, h)
    \/ \E s \in Users, d \in DisputeIds, h \in Strings, t \in Strings :
         SubmitEvidence(s, d, h, t)
    \/ \E s \in Users, d \in DisputeIds, w \in Winner, r \in Strings :
         ResolveDispute(s, d, w, r)
    \/ \E s \in Users, d \in DisputeIds, n \in DisputeStatus :
         UpdateDisputeStatus(s, d, n)
    \/ \E s \in Users, v \in Values : Receive(s, v)

SpecTrading == Init /\ [][TradingNext]_vars

\* ------------------------------------------- marketplace administration
Penalties == {0, 100, 1100}
MaxFeePercent == 1000
FeeSettings == 0..(MaxFeePercent + 1)

PenalizeReputationAccepted(sender, penalty) ==
    /\ sender = Owner
    /\ penalty > 0

PenalizeReputation(sender, user, penalty) ==
    /\ PenalizeReputationAccepted(sender, penalty)
    /\ reputations' = [UpdateReputation(reputations, user, -penalty)
                         EXCEPT ![user].failedOrders = @ + 1]
    /\ Tx("penalizeReputation", sender, user)
    /\ transfers' = <<>>
    /\ UNCHANGED <<nextOrderId, orders, platformFeePercent, feeRecipient,
                   marketBalance, disputeVars, feeRefunds, donations>>

\* setPlatformFee without its cap.
SetPlatformFeeUncapped(sender, newFeePercent) == sender = Owner

SetPlatformFeeAccepted(sender, newFeePercent) ==
    /\ sender = Owner
    /\ newFeePercent <= MaxFeePercent

SetPlatformFee(sender, newFeePercent) ==
    /\ SetPlatformFeeAccepted(sender, newFeePercent)
    /\ platformFeePercent' = newFeePercent
    /\ Tx("setPlatformFee", sender, newFeePercent)
    /\ transfers' = <<>>
    /\ UNCHANGED <<nextOrderId, orders, reputations, feeRecipient,
                   marketBalance, disputeVars, feeRefunds, donations>>

\* ------------------------------------------------------- reverted calls
\* A failed require or transfer reverts the call: storage and balances are
\* what they were before it, whatever the call had written until then.
\* A revert that keeps what the call had written.
RevertKeepsWrites(before, written) == written

Revert(before, written) == before

\* A reverted call of fn is a step that is recorded in lastCall with ok FALSE.
Reverted(fn, sender, id) ==
    /\ txCount < MaxTx
    /\ txCount' = txCount + 1
    /\ lastCall' = CallRecord(fn, sender, id, FALSE)
    /\ transfers' = <<>>
    /\ UNCHANGED <<nextOrderId, platformFeePercent, feeRecipient, disputeVars,
                   permissionVars, indexerVars, feeRefunds, donations,
                   everFunded>>

\* createOrder reverts after onlyTrustedSeller has written the score of a new
\* caller and after msg.value has been credited.
CreateOrderReverted(sender, value, description) ==
    /\ ~CreateOrderAccepted(sender, value, description)
    /\ reputations' = Revert(reputations, InitializeIfNew(reputations, sender))
    /\ marketBalance' = Revert(marketBalance, marketBalance + value)
    /\ orders' = orders
    /\ Reverted("createOrder", sender, nextOrderId)

\* fundOrder reverts in its requires, before any write of its own.
FundOrderReverted(sender, orderId, value) ==
    /\ ~FundOrderAccepted(sender, orderId, value)
    /\ marketBalance' = Revert(marketBalance, marketBalance + value)
    /\ UNCHANGED <<orders, reputations>>
    /\ Reverted("fundOrder", sender, orderId)

\* confirmReceipt reverts in its requires, or in a transfer after the status
\* and the reputations have been written.
ConfirmReceiptReverted(sender, orderId) ==
    LET order == orders[orderId]
        written == order.status = "Funded" /\ sender = order.buyer
    IN  /\ ~ConfirmReceiptAccepted(sender, orderId)
        /\ orders' = Revert(orders,
             IF written THEN [orders EXCEPT ![orderId].status = "Confirmed"]
             ELSE orders)
        /\ reputations' = Revert(reputations,
             IF written THEN ConfirmReputations(reputations, order)
             ELSE reputations)
        /\ marketBalance' = marketBalance
        /\ Reverted("confirmReceipt", sender, orderId)

\* cancelOrder reverts in its requires, or in the transfer after the status
\* has been written.
CancelOrderReverted(sender, orderId) ==
    LET order == orders[orderId]
        written == sender = order.seller /\ order.status = "Created"
    IN  /\ ~CancelOrderAccepted(sender, orderId)
        /\ orders' = Revert(orders,
             IF written THEN [orders EXCEPT ![orderId].status = "Cancelled"]
             ELSE orders)
        /\ UNCHANGED <<reputations, marketBalance>>
        /\ Reverted("cancelOrder", sender, orderId)

\* The marketplace alone, with the reverted calls of its four order
\* functions as steps.
CallsNext ==
    \/ \E s \in Traders, v \in Values, t \in Strings : CreateOrder(s, v, t)
    \/ \E s \in Traders, v \in Values, t \in Strings :
         CreateOrderReverted(s, v, t)
    \/ \E s \in Traders, o \in OrderIds, v \in Values : FundOrder(s, o, v)
    \/ \E s \in Traders, o \in OrderIds, v \in Values :
         FundOrderReverted(s, o, v)
    \/ \E s \in Users, o \in OrderIds : ConfirmReceipt(s, o)
    \/ \E s \in Users, o \in OrderIds : ConfirmReceiptReverted(s, o)
    \/ \E s \in Users, o \in OrderIds : CancelOrder(s, o)
    \/ \E s \in Users, o \in OrderIds : CancelOrderReverted(s, o)
    \/ \E s \in Users : MarketEmergencyWithdraw(s)
    \/ \E s \in Users, u \in Traders, p \in Penalties :
         PenalizeReputation(s, u, p)

SpecCalls == Init /\ [][CallsNext]_vars

\* ------------------------------------------------------------ fee runs
\* Order amounts around the fee denominator, and the amount of the worked
\* example of the fee computation.
FeeAmounts == {1, 39, 40, 9999, 10000, 10001, 1000000}

\* The owner sets the fee, once, right after deployment; Alice then sells
\* one order of any amount to Bob.
FeeNext ==
    \/ \E s \in Users, n \in FeeSettings :
         lastCall.fn = "constructor" /\ SetPlatformFee(s, n)
    \/ \E v \in FeeAmounts : nextOrderId = 0 /\ CreateOrder(Alice, v, "x")
    \/ \E o \in OrderIds, v \in FeeAmounts : FundOrder(Bob, o, v)
    \/ \E s \in Users, o \in OrderIds : ConfirmReceipt(s, o)

SpecFee == Init /\ [][FeeNext]_vars

\* setPlatformFee reverts in onlyOwner or in its require, before the write.
SetPlatformFeeReverted(sender, newFeePercent) ==
    /\ ~SetPlatformFeeAccepted(sender, newFeePercent)
    /\ UNCHANGED <<orders, reputations, marketBalance>>
    /\ Reverted("setPlatformFee", sender, newFeePercent)

\* Fees around the cap of setPlatformFee.
FeeChoices == {0, 1, 1000, 1001, 2000}

\* Anyone calls setPlatformFee at any time while Alice sells to Bob.
FeeAdminNext ==
    \/ \E s \in Users, n \in FeeChoices : SetPlatformFee(s, n)
    \/ \E s \in Users, n \in FeeChoices : SetPlatformFeeReverted(s, n)
    \/ \E v \in Values : CreateOrder(Alice, v, "x")
    \/ \E o \in OrderIds, v \in Values : FundOrder(Bob, o, v)
    \/ \E s \in Users, o \in OrderIds : ConfirmReceipt(s, o)

SpecFeeAdmin == Init /\ [][FeeAdminNext]_vars

\* ------------------------------------------------ arbitrator administration
AddArbitratorAccepted(sender, arbitrator) ==
    /\ sender = Owner
    /\ arbitrator # ZeroAddress
    /\ arbitrator \notin authorizedArbitrators

AddArbitrator(sender, arbitrator) ==
    /\ AddArbitratorAccepted(sender, arbitrator)
    /\ authorizedArbitrators' = authorizedArbitrators \cup {arbitrator}
    /\ Tx("addArbitrator", sender, arbitrator)
    /\ transfers' = <<>>
    /\ UNCHANGED <<marketVars, nextDisputeId, disputes, orderToDispute,
                   disputeEvidence, mainArbitrator, disputeFee,
                   arbitratorResolutionCount, disputeBalance, feeRefunds,
                   donations>>

\* removeArbitrator without its check for the main arbitrator.
RemoveArbitratorOfMain(sender, arbitrator) ==
    /\ sender = Owner
    /\ arbitrator \in authorizedArbitrators

RemoveArbitratorAccepted(sender, arbitrator) ==
    /\ sender = Owner
    /\ arbitrator # mainArbitrator
    /\ arbitrator \in authorizedArbitrators

RemoveArbitrator(sender, arbitrator) ==
    /\ RemoveArbitratorAccepted(sender, arbitrator)
    /\ authorizedArbitrators' = authorizedArbitrators \ {arbitrator}
    /\ Tx("removeArbitrator", sender, arbitrator)
    /\ transfers' = <<>>
    /\ UNCHANGED <<marketVars, nextDisputeId, disputes, orderToDispute,
                   disputeEvidence, mainArbitrator, disputeFee,
                   arbitratorResolutionCount, disputeBalance, feeRefunds,
                   donations>>

SetMainArbitratorAccepted(sender, newArbitrator) ==
    /\ sender = Owner
    /\ newArbitrator # ZeroAddress

\* The old main arbitrator is struck off first, then the new one entered:
\* called with the current main arbitrator, the entry ends up set.
SetMainArbitrator(sender, newArbitrator) ==
    /\ SetMainArbitratorAccepted(sender, newArbitrator)
    /\ authorizedArbitrators' =
         (authorizedArbitrators \ {mainArbitrator}) \cup {newArbitrator}
    /\ mainArbitrator' = newArbitrator
    /\ Tx("setMainArbitrator", sender, newArbitrator)
    /\ transfers' = <<>>
    /\ UNCHANGED <<marketVars, nextDisputeId, disputes, orderToDispute,
                   disputeEvidence, disputeFee, arbitratorResolutionCount,
                   disputeBalance, feeRefunds, donations>>

\* The owner administers the arbitrators while Alice sells to Bob, either
\* of them disputes the order and every user tries to arbitrate.
ArbitersNext ==
    \/ \E s \in Users, a \in Addresses : AddArbitrator(s, a)
    \/ \E s \in Users, a \in Addresses : RemoveArbitrator(s, a)
    \/ \E s \in Users, a \in Addresses : SetMainArbitrator(s, a)
    \/ CreateOrder(Alice, ValueUnit, "x")
    \/ \E o \in OrderIds : FundOrder(Bob, o, ValueUnit)
    \/ \E s \in Traders, o \in OrderIds :
         RaiseDispute(s, o, ValueUnit, "x", "x")
    \/ \E s \in Users, d \in DisputeIds, w \in Winner :
         ResolveDispute(s, d, w, "x")
    \/ \E s \in Users, d \in DisputeIds, st \in DisputeStatus :
         UpdateDisputeStatus(s, d, st)

SpecArbiters == Init /\ [][ArbitersNext]_vars

\* ------------------------------------------- the permissioned marketplace
\* ZKMarketplace_Permissioned keeps its orders, fee and balance in the
\* variables of the marketplace and adds owner, the approval flags (the set
\* of addresses whose flag is true) and their two counters.  Its counters
\* are uint256 under checked arithmetic: a decrement of 0 reverts the call.
\* The model follows the first MaxPermissionedTx of its transactions.
MaxPermissionedTx == 6

PermissionedTx(fn, sender, id) ==
    /\ txCount < MaxPermissionedTx
    /\ Executed(fn, sender, id)
    /\ transfers' = <<>>
    /\ UNCHANGED <<reputations, platformFeePercent, feeRecipient, disputeVars,
                   indexerVars, feeRefunds, donations>>

ApproveAccepted(sender, account, approved) ==
    /\ sender = owner
    /\ account # ZeroAddress
    /\ account \notin approved

ApproveSeller(sender, seller) ==
    /\ ApproveAccepted(sender, seller, approvedSellers)
    /\ approvedSellers' = approvedSellers \cup {seller}
    /\ totalApprovedSellers' = totalApprovedSellers + 1
    /\ PermissionedTx("approveSeller", sender, seller)
    /\ UNCHANGED <<nextOrderId, orders, marketBalance, owner, approvedBuyers,
                   totalApprovedBuyers>>

ApproveBuyer(sender, buyer) ==
    /\ ApproveAccepted(sender, buyer, approvedBuyers)
    /\ approvedBuyers' = approvedBuyers \cup {buyer}
    /\ totalApprovedBuyers' = totalApprovedBuyers + 1
    /\ PermissionedTx("approveBuyer", sender, buyer)
    /\ UNCHANGED <<nextOrderId, orders, marketBalance, owner, approvedSellers,
                   totalApprovedSellers>>

RevokeAccepted(sender, account, approved, total) ==
    /\ sender = owner
    /\ account # owner
    /\ account \in approved
    /\ total > 0

RevokeSeller(sender, seller) ==
    /\ RevokeAccepted(sender, seller, approvedSellers, totalApprovedSellers)
    /\ approvedSellers' = approvedSellers \ {seller}
    /\ totalApprovedSellers' = totalApprovedSellers - 1
    /\ PermissionedTx("revokeSeller", sender, seller)
    /\ UNCHANGED <<nextOrderId, orders, marketBalance, owner, approvedBuyers,
                   totalApprovedBuyers>>

RevokeBuyer(sender, buyer) ==
    /\ RevokeAccepted(sender, buyer, approvedBuyers, totalApprovedBuyers)
    /\ approvedBuyers' = approvedBuyers \ {buyer}
    /\ totalApprovedBuyers' = totalApprovedBuyers - 1
    /\ PermissionedTx("revokeBuyer", sender, buyer)
    /\ UNCHANGED <<nextOrderId, orders, marketBalance, owner, approvedSellers,
                   totalApprovedSellers>>

\* The loop of the batch approvals: the flags and the counter after the
\* accounts of the list have been gone through in order.
RECURSIVE BatchApprove(_, _, _)
BatchApprove(approved, total, accounts) ==
    IF accounts = <<>>
    THEN [approved |-> approved, total |-> total]
    ELSE IF Head(accounts) \notin approved /\ Head(accounts) # ZeroAddress
         THEN BatchApprove(approved \cup {Head(accounts)}, total + 1,
                           Tail(accounts))
         ELSE BatchApprove(approved, total, Tail(accounts))

BatchApproveSellers(sender, sellers) ==
    LET after == BatchApprove(approvedSellers, totalApprovedSellers, sellers)
    IN  /\ sender = owner
        /\ approvedSellers' = after.approved
        /\ totalApprovedSellers' = after.total
        /\ PermissionedTx("batchApproveSellers", sender, 0)
        /\ UNCHANGED <<nextOrderId, orders, marketBalance, owner,
                       approvedBuyers, totalApprovedBuyers>>

BatchApproveBuyers(sender, buyers) ==
    LET after == BatchApprove(approvedBuyers, totalApprovedBuyers, buyers)
    IN  /\ sender = owner
        /\ approvedBuyers' = after.approved
        /\ totalApprovedBuyers' = after.total
        /\ PermissionedTx("batchApproveBuyers", sender, 0)
        /\ UNCHANGED <<nextOrderId, orders, marketBalance, owner,
                       approvedSellers, totalApprovedSellers>>

ApproveParticipant(sender, participant) ==
    /\ sender = owner
    /\ participant # ZeroAddress
    /\ approvedSellers' = approvedSellers \cup {participant}
    /\ totalApprovedSellers' =
         IF participant \notin approvedSellers THEN totalApprovedSellers + 1
         ELSE totalApprovedSellers
    /\ approvedBuyers' = approvedBuyers \cup {participant}
    /\ totalApprovedBuyers' =
         IF participant \notin approvedBuyers THEN totalApprovedBuyers + 1
         ELSE totalApprovedBuyers
    /\ PermissionedTx("approveParticipant", sender, participant)
    /\ UNCHANGED <<nextOrderId, orders, marketBalance, owner>>

\* transferOwnership sets both flags of the new owner and leaves the two
\* counters as they are.
TransferOwnership(sender, newOwner) ==
    /\ sender = owner
    /\ newOwner # ZeroAddress
    /\ approvedSellers' = approvedSellers \cup {newOwner}
    /\ approvedBuyers' = approvedBuyers \cup {newOwner}
    /\ owner' = newOwner
    /\ PermissionedTx("transferOwnership", sender, newOwner)
    /\ UNCHANGED <<nextOrderId, orders, marketBalance, totalApprovedSellers,
                   totalApprovedBuyers>>

\* createOrder of the permissioned variant without onlyApprovedSeller.
CreateOrderUnpermissioned(sender, value, description) ==
    /\ value > 0
    /\ description # ""

PermissionedCreateOrderAccepted(sender, value, description) ==
    /\ sender \in approvedSellers
    /\ value > 0
    /\ description # ""

PermissionedCreateOrder(sender, value, description) ==
    LET orderId == nextOrderId
    IN  /\ nextOrderId < MaxOrders
        /\ PermissionedCreateOrderAccepted(sender, value, description)
        /\ nextOrderId' = nextOrderId + 1
        /\ orders' = [orders EXCEPT ![orderId] =
             [seller |-> sender, buyer |-> ZeroAddress, amount |-> value,
              description |-> description, status |-> "Created"]]
        /\ marketBalance' = marketBalance + value
        /\ PermissionedTx("createOrder", sender, orderId)
        /\ UNCHANGED permissionVars

PermissionedFundOrderAccepted(sender, orderId, value) ==
    /\ sender \in approvedBuyers
    /\ orders[orderId].status = "Created"
    /\ value = orders[orderId].amount
    /\ sender # orders[orderId].seller

PermissionedFundOrder(sender, orderId, value) ==
    /\ PermissionedFundOrderAccepted(sender, orderId, value)
    /\ orders' = [orders EXCEPT ![orderId].buyer = sender,
                                ![orderId].status = "Funded"]
    /\ marketBalance' = marketBalance + value
    /\ PermissionedTx("fundOrder", sender, orderId)
    /\ UNCHANGED <<nextOrderId, permissionVars>>

\* The requires of the permissioned confirmReceipt; its two transfers revert
\* the call when the contract does not hold their sum.
PermissionedConfirmReceiptAccepted(sender, orderId) ==
    /\ orders[orderId].status = "Funded"
    /\ sender = orders[orderId].buyer
    /\ sender \in approvedBuyers
    /\ marketBalance >= orders[orderId].amount

PermissionedConfirmReceipt(sender, orderId) ==
    LET order == orders[orderId]
        platformFee == PlatformFee(order.amount, platformFeePercent)
        sellerAmount == SellerAmount(order.amount, platformFeePercent)
    IN  /\ txCount < MaxPermissionedTx
        /\ PermissionedConfirmReceiptAccepted(sender, orderId)
        /\ orders' = [orders EXCEPT ![orderId].status = "Confirmed"]
        /\ marketBalance' = marketBalance - sellerAmount - platformFee
        /\ Executed("confirmReceipt", sender, orderId)
        /\ transfers' = << Transfer("market", order.seller, sellerAmount),
                           Transfer("market", feeRecipient, platformFee) >>
        /\ UNCHANGED <<nextOrderId, reputations, platformFeePercent,
                       feeRecipient, disputeVars, permissionVars, indexerVars,
                       feeRefunds, donations>>

\* The address lists the batch approvals are called with: up to
\* MaxBatch addresses, the zero address and repetitions included.
MaxBatch == 2
AddressLists ==
    UNION {[1..n -> Addresses] : n \in 0..MaxBatch}

\* Every user calls every function of the permissioned marketplace; the
\* fee and its recipient stay as deployed.
PermissionedNext ==
    \/ \E s \in Users, a \in Addresses : ApproveSeller(s, a)
    \/ \E s \in Users, a \in Addresses : ApproveBuyer(s, a)
    \/ \E s \in Users, a \in Addresses : RevokeSeller(s, a)
    \/ \E s \in Users, a \in Addresses : RevokeBuyer(s, a)
    \/ \E s \in Users, l \in AddressLists : BatchApproveSellers(s, l)
    \/ \E s \in Users, l \in AddressLists : BatchApproveBuyers(s, l)
    \/ \E s \in Users, a \in Addresses : ApproveParticipant(s, a)
    \/ \E s \in Users, a \in Addresses : TransferOwnership(s, a)
    \/ \E s \in Users : PermissionedCreateOrder(s, ValueUnit, "x")
    \/ \E s \in Users, o \in OrderIds, v \in Values :
         PermissionedFundOrder(s, o, v)
    \/ \E s \in Users, o \in OrderIds : PermissionedConfirmReceipt(s, o)

SpecPermissioned == Init /\ [][PermissionedNext]_vars

\* ------------------------------------------------------------ the indexer
\* The log of the chain the indexer reads: Alice sells order 0 to Bob, whose
\* confirmReceipt emits OrderConfirmed and the two ReputationUpdated in one
\* transaction, then Bob creates order 1 and cancels it.
ChainEvents == <<
    [event |-> "OrderCreated", blockNumber |-> 1, transactionHash |-> 1,
     args |-> [orderId |-> 0, seller |-> Alice, buyer |-> ZeroAddress,
               amount |-> ValueUnit, description |-> "x"]],
    [event |-> "OrderFunded", blockNumber |-> 2, transactionHash |-> 2,
     args |-> [orderId |-> 0, buyer |-> Bob, amount |-> ValueUnit]],
    [event |-> "OrderConfirmed", blockNumber |-> 3, transactionHash |-> 3,
     args |-> [orderId |-> 0, seller |-> Alice,
               amount |-> SellerAmount(ValueUnit, InitialPlatformFee)]],
    [event |-> "ReputationUpdated", blockNumber |-> 3, transactionHash |-> 3,
     args |-> [user |-> Alice, oldScore |-> INITIAL_REPUTATION,
               newScore |-> INITIAL_REPUTATION + REPUTATION_PER_SUCCESS,
               reason |-> "Successful sale"]],
    [event |-> "ReputationUpdated", blockNumber |-> 3, transactionHash |-> 3,
     args |-> [user |-> Bob, oldScore |-> INITIAL_REPUTATION,
               newScore |-> INITIAL_REPUTATION + REPUTATION_PER_SUCCESS \div 2,
               reason |-> "Successful purchase"]],
    [event |-> "OrderCreated", blockNumber |-> 4, transactionHash |-> 4,
     args |-> [orderId |-> 1, seller |-> Bob, buyer |-> ZeroAddress,
               amount |-> ValueUnit, description |-> "x"]],
    [event |-> "OrderCancelled", blockNumber |-> 5, transactionHash |-> 5,
     args |-> [orderId |-> 1, cancelledBy |-> Bob]] >>

EventIndexes == 1..Len(ChainEvents)

\* contract.getUserReputation at the head of that chain.
GetUserReputation(address) ==
    IF address = Alice
    THEN [score |-> INITIAL_REPUTATION + REPUTATION_PER_SUCCESS,
          isVerified |-> FALSE]
    ELSE IF address = Bob
    THEN [score |-> INITIAL_REPUTATION + REPUTATION_PER_SUCCESS \div 2,
          isVerified |-> FALSE]
    ELSE IF address = Owner
    THEN [score |-> OwnerInitialReputation, isVerified |-> TRUE]
    ELSE [score |-> 0, isVerified |-> FALSE]

UserExists(users, address) == \E u \in users : u.address = address

EnsureUserExists(users, address) ==
    IF UserExists(users, address) THEN users
    ELSE users \cup
           {[address |-> address,
             reputation_score |-> GetUserReputation(address).score,
             is_verified |-> GetUserReputation(address).isVerified]}

SyncUserReputation(users, address) ==
    {IF u.address = address
     THEN [u EXCEPT !.reputation_score = GetUserReputation(address).score,
                    !.is_verified = GetUserReputation(address).isVerified]
     ELSE u : u \in users}

\* INSERT ... ON CONFLICT (transaction_hash, event_name) DO NOTHING.
LogEvent(events, event) ==
    IF \E r \in events : /\ r.transaction_hash = event.transactionHash
                         /\ r.event_name = event.event
    THEN events
    ELSE events \cup {[block_number |-> event.blockNumber,
                       transaction_hash |-> event.transactionHash,
                       event_name |-> event.event,
                       event_data |-> event.args]}

\* UPDATE orders SET status = ... WHERE order_id = ...
SetOrderStatus(rows, orderId, status) ==
    {IF r.order_id = orderId THEN [r EXCEPT !.status = status] ELSE r :
       r \in rows}

\* The model follows the first MaxDeliveries events handed to a handler; a
\* handler runs to its end before the next one starts.
MaxDeliveries == 6

Delivered(handler, index) ==
    /\ txCount < MaxDeliveries
    /\ Executed(handler, ZeroAddress, index)
    /\ transfers' = <<>>
    /\ UNCHANGED <<marketVars, disputeVars, permissionVars, feeRefunds,
                   donations>>

HandleOrderCreated(index) ==
    LET event == ChainEvents[index]
        args == event.args
    IN  /\ event.event = "OrderCreated"
        /\ dbUsers' = EnsureUserExists(dbUsers, args.seller)
        /\ dbOrders' =
             IF \E r \in dbOrders : r.order_id = args.orderId
             THEN {IF r.order_id = args.orderId
                   THEN [r EXCEPT !.description = args.description]
                   ELSE r : r \in dbOrders}
             ELSE dbOrders \cup
                    {[order_id |-> args.orderId,
                      seller_address |-> args.seller,
                      buyer_address |-> ZeroAddress,
                      amount_wei |-> args.amount,
                      description |-> args.description,
                      status |-> "pending"]}
        /\ dbEvents' = LogEvent(dbEvents, event)
        /\ Delivered("handleOrderCreated", index)
        /\ UNCHANGED dbReputationHistory

HandleOrderFunded(index) ==
    LET event == ChainEvents[index]
        args == event.args
    IN  /\ event.event = "OrderFunded"
        /\ dbUsers' = EnsureUserExists(dbUsers, args.buyer)
        /\ dbOrders' =
             {IF r.order_id = args.orderId
              THEN [r EXCEPT !.buyer_address = args.buyer,
                             !.status = "funded"]
              ELSE r : r \in dbOrders}
        /\ dbEvents' = LogEvent(dbEvents, event)
        /\ Delivered("handleOrderFunded", index)
        /\ UNCHANGED dbReputationHistory

HandleOrderConfirmed(index) ==
    LET event == ChainEvents[index]
        args == event.args
        users1 == SyncUserReputation(dbUsers, args.seller)
        orderResult == {r \in dbOrders : r.order_id = args.orderId}
    IN  /\ event.event = "OrderConfirmed"
        /\ dbOrders' = SetOrderStatus(dbOrders, args.orderId, "confirmed")
        /\ dbUsers' =
             IF orderResult # {}
             THEN SyncUserReputation(users1,
                    (CHOOSE r \in orderResult : TRUE).buyer_address)
             ELSE users1
        /\ dbEvents' = LogEvent(dbEvents, event)
        /\ Delivered("handleOrderConfirmed", index)
        /\ UNCHANGED dbReputationHistory

\* The INSERT into reputation_history has no conflict clause; it is refused
\* by the foreign key on user_address when the user has no row, and the
\* handler then ends in its catch, before logEvent.
HandleReputationUpdated(index) ==
    LET event == ChainEvents[index]
        args == event.args
    IN  /\ event.event = "ReputationUpdated"
        /\ dbUsers' = SyncUserReputation(dbUsers, args.user)
        /\ IF UserExists(dbUsers, args.user)
           THEN /\ dbReputationHistory' =
                     Append(dbReputationHistory,
                            [user_address |-> args.user,
                             old_score |-> args.oldScore,
                             new_score |-> args.newScore,
                             reason |-> args.reason])
                /\ dbEvents' = LogEvent(dbEvents, event)
           ELSE UNCHANGED <<dbReputationHistory, dbEvents>>
        /\ Delivered("handleReputationUpdated", index)
        /\ UNCHANGED dbOrders

HandleOrderCancelled(index) ==
    LET event == ChainEvents[index]
        args == event.args
    IN  /\ event.event = "OrderCancelled"
        /\ dbOrders' = SetOrderStatus(dbOrders, args.orderId, "cancelled")
        /\ dbEvents' = LogEvent(dbEvents, event)
        /\ Delivered("handleOrderCancelled", index)
        /\ UNCHANGED <<dbUsers, dbReputationHistory>>

\* The replay, the poll and the listeners hand any event of the log to its
\* handler, any number of times.
IndexerNext ==
    \/ \E i \in EventIndexes : HandleOrderCreated(i)
    \/ \E i \in EventIndexes : HandleOrderFunded(i)
    \/ \E i \in EventIndexes : HandleOrderConfirmed(i)
    \/ \E i \in EventIndexes : HandleReputationUpdated(i)
    \/ \E i \in EventIndexes : HandleOrderCancelled(i)

SpecIndexer == Init /\ [][IndexerNext]_vars

\* ------------------------------------------------------ reputation runs
\* The record of a trader after 90 confirmed sales and 9 confirmed purchases:
\* INITIAL_REPUTATION + 90 * 10 + 9 * 5.
VeteranReputation ==
    [score |-> 995, successfulOrders |-> 90, failedOrders |-> 0,
     totalOrders |-> 99, isVerified |-> FALSE]

\* The state after deployment or after the trading history that makes
\* traders veterans; the orders of that history are closed and left out.
RepInit ==
    /\ nextOrderId = 0
    /\ orders = [o \in OrderIds |-> EmptyOrder]
    /\ platformFeePercent = InitialPlatformFee
    /\ feeRecipient = Owner
    /\ marketBalance = 0
    /\ nextDisputeId = 0
    /\ disputes = [d \in DisputeIds |-> EmptyDispute]
    /\ orderToDispute = [o \in OrderIds |-> 0]
    /\ disputeEvidence = [d \in DisputeIds |-> <<>>]
    /\ authorizedArbitrators = {Owner}
    /\ mainArbitrator = Owner
    /\ disputeFee = InitialDisputeFee
    /\ arbitratorResolutionCount = [a \in Users |-> 0]
    /\ disputeBalance = 0
    /\ transfers = <<>>
    /\ feeRefunds = [d \in DisputeIds |-> 0]
    /\ donations = 0
    /\ txCount = 0
    /\ lastCall = CallRecord("constructor", Owner, 0, TRUE)
    /\ everFunded = {}
    /\ PermissionedInit
    /\ IndexerInit
    /\ \E ra \in {EmptyReputation, VeteranReputation},
          rb \in {EmptyReputation, VeteranReputation} :
         reputations = [a \in Addresses |->
            IF a = Owner
            THEN [EmptyReputation EXCEPT !.score = OwnerInitialReputation,
                                         !.isVerified = TRUE]
            ELSE IF a = Alice THEN ra
            ELSE IF a = Bob THEN rb
            ELSE EmptyReputation]

\* The calls that write a reputation record.
RepNext ==
    \/ \E s \in Traders, v \in Values, t \in Strings : CreateOrder(s, v, t)
    \/ \E s \in Traders, o \in OrderIds, v \in Values : FundOrder(s, o, v)
    \/ \E s \in Users, o \in OrderIds : ConfirmReceipt(s, o)
    \/ \E s \in Users, u \in Users, p \in Penalties :
         PenalizeReputation(s, u, p)

SpecRep == RepInit /\ [][RepNext]_vars


\* ------------------------------------------------------ derived notions
RECURSIVE SumFn(_, _)
SumFn(f, S) ==
    IF S = {} THEN 0
    ELSE LET x == CHOOSE y \in S : TRUE
         IN  f[x] + SumFn(f, S \ {x})

SumTransfers(ts) == SumFn([i \in DOMAIN ts |-> ts[i].amount], DOMAIN ts)

IsActive(dispute) == dispute.status \in {"Open", "UnderReview"}

\* Value in the custody of the two contracts.
CustodyHeld == marketBalance + disputeBalance

FundedAmounts ==
    SumFn([o \in OrderIds |->
             IF orders[o].status = "Funded" THEN orders[o].amount ELSE 0],
          OrderIds)

ActiveDisputeFees ==
    SumFn([d \in DisputeIds |->
             IF DisputeExists(d) /\ IsActive(disputes[d])
             THEN disputes[d].disputeFee ELSE 0],
          DisputeIds)

\* The step is a resolveDispute that was not reverted, on dispute d.
ResolveStep(d) ==
    /\ DisputeExists(d)
    /\ arbitratorResolutionCount' # arbitratorResolutionCount
    /\ disputes'[d] # disputes[d]

\* The step is a confirmReceipt that was not reverted, on order o.
ConfirmStep(o) ==
    /\ orders[o].status = "Funded"
    /\ orders'[o].status = "Confirmed"

\* --------------------------------------------------------------- claims

\* C1: in every reachable state the value held by the two contracts equals
\* the sum of amount over Funded orders plus the sum of disputeFee over
\* Open and UnderReview disputes.
C1_CustodyConservation == CustodyHeld = FundedAmounts + ActiveDisputeFees

\* C2: for every order at most one dispute naming it is Open or UnderReview
\* at any time, whichever id the first dispute received.
C2_SingleActiveDispute ==
    \A d1, d2 \in DisputeIds :
        ( /\ DisputeExists(d1) /\ DisputeExists(d2) /\ d1 # d2
          /\ disputes[d1].orderId = disputes[d2].orderId
          /\ IsActive(disputes[d1]) )
        => ~IsActive(disputes[d2])

\* C3: while a dispute on order X is Open or UnderReview, X is marked
\* Disputed and no confirmReceipt on X succeeds.
C3_OrderFrozenWhileDisputed ==
    [][ \A d \in DisputeIds :
          /\ (DisputeExists(d)' /\ IsActive(disputes'[d]))
                => orders'[disputes'[d].orderId].status = "Disputed"
          /\ (DisputeExists(d) /\ IsActive(disputes[d]))
                => ~ConfirmStep(disputes[d].orderId) ]_vars

\* C4: a successful confirmReceipt on an order of amount a pays out 2a in
\* all (seller's deposit plus buyer's deposit), leaving nothing of the order
\* in custody.
C4_ConfirmPaysWholePool ==
    [][ \A o \in OrderIds :
          ConfirmStep(o) =>
             /\ SumTransfers(transfers') = 2 * orders[o].amount
             /\ marketBalance' = marketBalance - 2 * orders[o].amount ]_vars

\* C5: the status of an order id only changes along Created->Funded,
\* Funded->Confirmed, Created->Cancelled, Funded/Confirmed->Disputed and
\* Disputed->Resolved, and the seller, buyer and amount of a record that has
\* left Created are never replaced.
OrderTransitions ==
    { <<"Created", "Funded">>, <<"Funded", "Confirmed">>,
      <<"Created", "Cancelled">>, <<"Funded", "Disputed">>,
      <<"Confirmed", "Disputed">>, <<"Disputed", "Resolved">> }

C5_OrderStatusMonotonic ==
    [][ \A o \in OrderIds :
          /\ orders'[o].status # orders[o].status
                => <<orders[o].status, orders'[o].status>> \in OrderTransitions
          /\ orders[o].status # "Created"
                => /\ orders'[o].seller = orders[o].seller
                   /\ orders'[o].buyer = orders[o].buyer
                   /\ orders'[o].amount = orders[o].amount ]_vars

\* C6: the status of a dispute only changes along Open->UnderReview,
\* Open->Resolved, UnderReview->Resolved, Open->Cancelled and
\* UnderReview->Cancelled.
DisputeTransitions ==
    { <<"Open", "UnderReview">>, <<"Open", "Resolved">>,
      <<"UnderReview", "Resolved">>, <<"Open", "Cancelled">>,
      <<"UnderReview", "Cancelled">> }

C6_DisputeStatusMonotonic ==
    [][ \A d \in DisputeIds :
          (DisputeExists(d) /\ disputes'[d].status # disputes[d].status)
             => <<disputes[d].status, disputes'[d].status>> \in DisputeTransitions
      ]_vars

\* C7: after a successful resolveDispute on a dispute of order X, the
\* dispute is Resolved and order X is Resolved.
C7_ResolveMarksOrderResolved ==
    [][ \A d \in DisputeIds :
          ResolveStep(d) =>
             /\ disputes'[d].status = "Resolved"
             /\ orders'[disputes[d].orderId].status = "Resolved" ]_vars

\* C8: resolveDispute succeeds only for an authorized arbitrator and only on
\* a dispute that is Open or UnderReview.
C8_ResolveOnlyActiveByArbitrator ==
    [][ \A d \in DisputeIds :
          ResolveStep(d) =>
             /\ IsActive(disputes[d])
             /\ \A a \in Users :
                  arbitratorResolutionCount'[a] # arbitratorResolutionCount[a]
                     => OnlyArbitrator(a) ]_vars

\* C9: resolveDispute pays the winning participant the full pool of the
\* order (2 x amount) net of the platform fee, out of the value the
\* marketplace holds for that order.  The fee is accepted on the pool or on
\* the amount.
PooledPayouts(amount) ==
    { 2 * amount - PlatformFee(2 * amount, platformFeePercent),
      2 * amount - PlatformFee(amount, platformFeePercent) }

C9_ResolvePaysPooledPayout ==
    [][ \A d \in DisputeIds :
          ResolveStep(d) =>
             LET order == orders[disputes[d].orderId]
                 winnerAddress == IF disputes'[d].winner = "Buyer"
                                  THEN order.buyer ELSE order.seller
             IN  \E i \in DOMAIN transfers' :
                    /\ transfers'[i].to = winnerAddress
                    /\ transfers'[i].from = "market"
                    /\ transfers'[i].amount \in PooledPayouts(order.amount)
      ]_vars

\* C10: when a dispute leaves Open/UnderReview for Resolved or Cancelled,
\* exactly its disputeFee goes back to its disputer in that step, and no
\* dispute is refunded more than once.
C10_FeeRefundedOnClose ==
    [][ \A d \in DisputeIds :
          /\ ( /\ DisputeExists(d) /\ IsActive(disputes[d])
               /\ disputes'[d].status \in {"Resolved", "Cancelled"} )
                => /\ feeRefunds'[d] = feeRefunds[d] + 1
                   /\ \E i \in DOMAIN transfers' :
                        transfers'[i] = Transfer("dispute", disputes[d].disputer,
                                                 disputes[d].disputeFee)
          /\ feeRefunds'[d] <= 1 ]_vars

\* The step is a call of fn that was not reverted.
Called(fn) == txCount' = txCount + 1 /\ lastCall'.fn = fn /\ lastCall'.ok

\* Some dispute on order o has been resolved.
HasResolvedDispute(o) ==
    \E d \in DisputeIds :
        /\ DisputeExists(d)
        /\ disputes[d].orderId = o
        /\ disputes[d].status = "Resolved"

\* C11: once a dispute on an order is Resolved, no later raiseDispute on that
\* order is accepted, whichever id the resolved dispute had.
C11_NoRaiseAfterResolved ==
    [][\A o \in OrderIds :
         Called("raiseDispute") /\ lastCall'.id = o => ~HasResolvedDispute(o)]_vars

\* The calls that write a dispute or its evidence list.
DisputeWriters == {"resolveDispute", "updateDisputeStatus", "submitEvidence"}

\* C12: once a dispute is Resolved, its record (status, winner, resolution,
\* resolvedAt) and its evidence list never change again, and every later
\* resolveDispute, updateDisputeStatus and submitEvidence on it is rejected.
C12_ResolvedImmutable ==
    [][\A d \in DisputeIds :
         DisputeExists(d) /\ disputes[d].status = "Resolved" =>
            /\ disputes'[d] = disputes[d]
            /\ disputeEvidence'[d] = disputeEvidence[d]
            /\ \A fn \in DisputeWriters : ~(Called(fn) /\ lastCall'.id = d)]_vars

\* A dispute resolved by resolveDispute, in a state where further calls and
\* further evidence entries are still within the bounds of the model.
C12_Witness ==
    \E d \in DisputeIds :
        /\ DisputeExists(d)
        /\ disputes[d].status = "Resolved"
        /\ disputes[d].winner # "None"
        /\ Len(disputeEvidence[d]) < MaxEvidence
        /\ txCount < MaxTx

\* The first transfer of a resolveDispute step goes to the buyer or the seller
\* of the disputed order.
PayoutToParticipant ==
    \A d \in DisputeIds :
        ResolveStep(d) =>
            /\ Len(transfers') >= 1
            /\ transfers'[1].from = "dispute"
            /\ transfers'[1].to \in {orders[disputes[d].orderId].buyer,
                                    orders[disputes[d].orderId].seller}
            /\ transfers'[1].to # ZeroAddress

\* C13: every payout of resolveDispute goes to the buyer or the seller of the
\* disputed order, and the winner recorded on a resolved dispute is Buyer or
\* Seller, never None.
C13_WinnerIsParticipant ==
    [][/\ PayoutToParticipant
       /\ \A d \in DisputeIds :
            DisputeExists(d)' /\ disputes'[d].status = "Resolved" =>
                disputes'[d].winner \in {"Buyer", "Seller"}]_vars

\* Order o was created by createOrder.
OrderCreated(o) == o < nextOrderId

\* Some dispute on order o has one of the given statuses.
HasDisputeIn(o, statuses) ==
    \E d \in DisputeIds :
        /\ DisputeExists(d)
        /\ disputes[d].orderId = o
        /\ disputes[d].status \in statuses

\* Every raiseDispute call on a created order in one of the given statuses,
\* by a participant, with a sufficient fee and non-empty texts, is accepted
\* when no dispute on the order has one of the blocking statuses.
RaiseAcceptedFor(orderStatuses, blocking) ==
    \A s \in Users, o \in OrderIds, v \in Values, r \in Strings, h \in Strings :
        ( /\ OrderCreated(o)
          /\ orders[o].status \in orderStatuses
          /\ IsParticipant(s, orders[o])
          /\ v >= disputeFee
          /\ r # ""
          /\ h # ""
          /\ ~HasDisputeIn(o, blocking) )
        => RaiseDisputeAccepted(s, o, v, r, h)

\* Every accepted raiseDispute is on a created order in one of the statuses.
RaiseOnlyFor(orderStatuses) ==
    \A o \in OrderIds :
        Called("raiseDispute") /\ lastCall'.id = o =>
            OrderCreated(o) /\ orders[o].status \in orderStatuses

\* C14: raiseDispute is accepted for a created order whose status is Funded,
\* given a participant caller, a fee of at least disputeFee, non-empty reason
\* and evidence hash and no Open, UnderReview or Resolved dispute on the
\* order; it is rejected for an order in any other status, Confirmed
\* included, and for an order id that was never created.
C14_RaiseOnlyFunded ==
    [][/\ RaiseOnlyFor({"Funded"})
       /\ RaiseAcceptedFor({"Funded"}, {"Open", "UnderReview", "Resolved"})'
      ]_vars

\* A dispute has just been raised on a Funded order while another order is
\* Confirmed and a never-created order id remains.
C14_Witness ==
    /\ lastCall.fn = "raiseDispute"
    /\ orders[lastCall.id].status = "Funded"
    /\ \E o \in OrderIds : OrderCreated(o) /\ orders[o].status = "Confirmed"

\* C14 as stated: raiseDispute is accepted for a Funded or Confirmed order
\* with no active dispute, and rejected in every other status.
C14_AsStated ==
    [][/\ RaiseOnlyFor({"Funded", "Confirmed"})
       /\ RaiseAcceptedFor({"Funded", "Confirmed"}, {"Open", "UnderReview"})'
      ]_vars

\* The order a raiseDispute or submitEvidence call is about.
OrderOfCall(call) ==
    IF call.fn = "raiseDispute" THEN call.id ELSE disputes[call.id].orderId

\* C15: raiseDispute and submitEvidence succeed only when the caller is the
\* seller or the buyer of the dispute's order: every step that creates a
\* dispute or an evidence entry is such a call by a participant.
C15_OnlyParticipants ==
    [][(nextDisputeId' # nextDisputeId \/ disputeEvidence' # disputeEvidence
          \/ Called("raiseDispute") \/ Called("submitEvidence")) =>
         /\ lastCall'.fn \in {"raiseDispute", "submitEvidence"}
         /\ lastCall'.sender \in {orders[OrderOfCall(lastCall')].seller,
                                  orders[OrderOfCall(lastCall')].buyer}]_vars

\* Evidence has just been added by a participant other than the disputer.
C15_Witness ==
    /\ lastCall.fn = "submitEvidence"
    /\ DisputeExists(lastCall.id)
    /\ lastCall.sender # disputes[lastCall.id].disputer
    /\ IsParticipant(lastCall.sender, orders[disputes[lastCall.id].orderId])
    /\ Len(disputeEvidence[lastCall.id]) = 2

\* The step is a reverted call of fn.
RevertedCall(fn) ==
    txCount' = txCount + 1 /\ lastCall'.fn = fn /\ ~lastCall'.ok

OrderFunctions == {"createOrder", "fundOrder", "confirmReceipt", "cancelOrder"}

\* C16: every rejected call of createOrder, fundOrder, confirmReceipt or
\* cancelOrder leaves the orders, nextOrderId, every reputation record (the
\* caller's score included) and every balance as they were before the call.
C16_RejectedCallsChangeNothing ==
    [][(\E fn \in OrderFunctions : RevertedCall(fn)) =>
         /\ orders' = orders
         /\ nextOrderId' = nextOrderId
         /\ reputations' = reputations
         /\ marketBalance' = marketBalance
         /\ disputeBalance' = disputeBalance
         /\ transfers' = <<>>]_vars

\* createOrder by a caller without any order yet has just been rejected: the
\* call had written the caller's initial score before it was reverted.
C16_Witness ==
    /\ lastCall.fn = "createOrder"
    /\ ~lastCall.ok
    /\ reputations[lastCall.sender].totalOrders = 0
    /\ reputations[lastCall.sender].score # INITIAL_REPUTATION

\* C17: confirmReceipt succeeds only when the caller is the order's recorded
\* buyer and the order is Funded; a call by any other address is rejected and
\* leaves the order Funded with its funds still held.
C17_OnlyBuyerConfirms ==
    [][\A o \in OrderIds :
         /\ Called("confirmReceipt") /\ lastCall'.id = o =>
              /\ lastCall'.sender = orders[o].buyer
              /\ orders[o].status = "Funded"
         /\ orders[o].status = "Funded" /\ orders'[o].status = "Confirmed" =>
              /\ Called("confirmReceipt")
              /\ lastCall'.id = o
              /\ lastCall'.sender = orders[o].buyer
         /\ ( /\ txCount' = txCount + 1
              /\ lastCall'.fn = "confirmReceipt"
              /\ lastCall'.id = o
              /\ lastCall'.sender # orders[o].buyer ) =>
              /\ ~lastCall'.ok
              /\ orders'[o] = orders[o]
              /\ marketBalance' = marketBalance
              /\ transfers' = <<>>]_vars

\* confirmReceipt by the seller of a Funded order, whose funds the contract
\* holds, has just been rejected.
C17_Witness ==
    /\ lastCall.fn = "confirmReceipt"
    /\ ~lastCall.ok
    /\ OrderCreated(lastCall.id)
    /\ orders[lastCall.id].status = "Funded"
    /\ lastCall.sender = orders[lastCall.id].seller
    /\ marketBalance >= orders[lastCall.id].amount

\* cancelOrder is executed only for the seller of a Created order, moves
\* it to Cancelled and pays exactly its amount to the seller.
CancelBySellerWhileCreated ==
    \A o \in OrderIds :
        /\ Called("cancelOrder") /\ lastCall'.id = o =>
             /\ lastCall'.sender = orders[o].seller
             /\ orders[o].status = "Created"
             /\ orders'[o].status = "Cancelled"
             /\ transfers' = << Transfer("market", orders[o].seller,
                                         orders[o].amount) >>
        /\ orders[o].status # "Cancelled" /\ orders'[o].status = "Cancelled" =>
             Called("cancelOrder") /\ lastCall'.id = o

\* A Cancelled order is never funded, confirmed or cancelled again.
CancelledIsFinal ==
    \A o \in OrderIds :
        orders[o].status = "Cancelled" =>
            /\ orders'[o] = orders[o]
            /\ \A fn \in {"fundOrder", "confirmReceipt", "cancelOrder"} :
                 ~(Called(fn) /\ lastCall'.id = o)

\* C18: cancelOrder succeeds only for the order's seller while the order is
\* Created, moves it to Cancelled and transfers exactly order.amount to the
\* seller; an order that has been Funded is never cancelled, and a Cancelled
\* order is never funded, confirmed or cancelled again.
C18_CancelOnlyUnfunded ==
    [][/\ CancelBySellerWhileCreated
       /\ CancelledIsFinal
       /\ \A o \in everFunded : orders'[o].status # "Cancelled"]_vars

\* f is the integer part of amount * feeBps / 10000.
IsFloorOfFee(f, amount, feeBps) ==
    /\ f * FeeDenominator <= amount * feeBps
    /\ amount * feeBps < (f + 1) * FeeDenominator

\* C19: for every amount and every fee setting in 0..1000, confirmReceipt
\* pays platformFee = floor(amount * feeBps / 10000) to the fee recipient and
\* sellerAmount = amount - platformFee to the seller, so the two add up to
\* amount and the fee is at most 10% of it; for amount 1,000,000 and feeBps
\* 250 they are 25,000 and 975,000.
C19_FeeExact ==
    [][/\ platformFeePercent' \in 0..MaxFeePercent
       /\ \A o \in OrderIds :
            Called("confirmReceipt") /\ lastCall'.id = o =>
              LET amount == orders[o].amount
                  sellerAmount == transfers'[1].amount
                  platformFee == transfers'[2].amount
              IN  /\ Len(transfers') = 2
                  /\ transfers'[1].to = orders[o].seller
                  /\ transfers'[2].to = feeRecipient
                  /\ IsFloorOfFee(platformFee, amount, platformFeePercent)
                  /\ sellerAmount = amount - platformFee
                  /\ platformFee + sellerAmount = amount
                  /\ platformFee * 10 <= amount
                  /\ (amount = 1000000 /\ platformFeePercent = 250) =>
                       platformFee = 25000 /\ sellerAmount = 975000]_vars

\* An order of 1,000,000 has just been confirmed at 250 basis points.
C19_Witness ==
    /\ lastCall.fn = "confirmReceipt"
    /\ orders[lastCall.id].status = "Confirmed"
    /\ orders[lastCall.id].amount = 1000000
    /\ platformFeePercent = 250
    /\ transfers = << Transfer("market", Alice, 975000),
                      Transfer("market", Owner, 25000) >>

\* C20: in every reachable state every user's reputation score lies in
\* [-100, 1000], whatever deployments, order confirmations and
\* penalizeReputation calls with a positive penalty have occurred.
C20_ScoreInRange ==
    \A a \in Addresses :
        MinScore <= reputations[a].score /\ reputations[a].score <= MaxScore

\* A veteran seller's credit has been capped at 1000 and a penalty has just
\* been capped at -100.
C20_Witness ==
    /\ lastCall.fn = "penalizeReputation"
    /\ \E a \in Users, b \in Users :
         /\ reputations[a].score = MaxScore
         /\ reputations[a].successfulOrders = 91
         /\ reputations[b].score = MinScore
         /\ reputations[b].failedOrders >= 1

\* C21: createOrder is rejected whenever the caller's score is below 0,
\* however many orders the caller has completed.
C21_NoOrderBelowMinimum ==
    [][Called("createOrder") =>
         reputations[lastCall'.sender].score >= MINIMUM_SELLER_REPUTATION]_vars

\* C22: a resolveDispute that succeeds raises the winner's score by the
\* success credit and lowers the loser's score by the failure penalty, each
\* subject to the cap.
C22_ResolveMovesReputation ==
    [][\A d \in DisputeIds :
         ResolveStep(d) =>
           LET order == orders[disputes[d].orderId]
               won == IF disputes'[d].winner = "Buyer" THEN order.buyer
                      ELSE order.seller
               lost == IF disputes'[d].winner = "Buyer" THEN order.seller
                       ELSE order.buyer
           IN  /\ reputations'[won].score =
                    Clamp(reputations[won].score + REPUTATION_PER_SUCCESS)
               /\ reputations'[lost].score =
                    Clamp(reputations[lost].score + REPUTATION_PER_FAILURE)]_vars

\* Order o has been paid out to the winner of one of its disputes.
PaidToWinner(o) ==
    \E d \in DisputeIds :
        /\ DisputeExists(d)
        /\ disputes[d].orderId = o
        /\ disputes[d].winner # "None"

\* C23: the value of an order is released by at most one terminal action: no
\* order is both settled by confirmReceipt (or refunded by cancelOrder) and
\* paid out to a winner by resolveDispute.
C23_SingleRelease ==
    [][\A o \in OrderIds :
         /\ (\E d \in DisputeIds : ResolveStep(d) /\ disputes[d].orderId = o) =>
              orders[o].status \notin {"Confirmed", "Cancelled"}
         /\ (Called("confirmReceipt") \/ Called("cancelOrder"))
              /\ lastCall'.id = o => ~PaidToWinner(o)]_vars

\* C24: while a dispute is Open or UnderReview, resolveDispute by an
\* authorized arbitrator naming Buyer or Seller with a non-empty resolution
\* succeeds; it is never blocked because the dispute contract does not hold
\* the order payout and the fee refund.
C24_ResolveNeverBlocked ==
    \A d \in DisputeIds :
        DisputeExists(d) /\ IsActive(disputes[d]) =>
            \A s \in Users, w \in {"Buyer", "Seller"} :
                OnlyArbitrator(s) => ResolveDisputeAccepted(s, d, w, "x")

\* C25: a score changes only in the calls that go through the
\* reputation-update operation (confirmReceipt, penalizeReputation);
\* createOrder and fundOrder set the score of their caller only on its first
\* interaction, when its record is still empty, and never alter a score that
\* was set or changed before.
C25_ScoreChangesOnlyByUpdate ==
    [][\A a \in Addresses :
         reputations'[a].score # reputations[a].score =>
            \/ Called("confirmReceipt")
            \/ Called("penalizeReputation")
            \/ /\ Called("createOrder") \/ Called("fundOrder")
               /\ a = lastCall'.sender
               /\ reputations[a] = EmptyReputation
               /\ reputations'[a].score = INITIAL_REPUTATION]_vars

\* C26: every order that is not Created, or whose buyer is set, was issued by
\* createOrder: its id is below nextOrderId, its amount is positive and its
\* seller is a non-zero address other than its buyer; fundOrder never
\* succeeds on an id createOrder has not issued.
C26_FundedOrdersWereCreated ==
    \A o \in OrderIds :
        (orders[o].status # "Created" \/ orders[o].buyer # ZeroAddress) =>
            /\ OrderCreated(o)
            /\ orders[o].amount > 0
            /\ orders[o].seller # ZeroAddress
            /\ orders[o].seller # orders[o].buyer

\* C27: as long as emergencyWithdraw of the dispute contract has not been
\* called, the dispute contract holds at least the fees of the disputes that
\* are Open or UnderReview.
C27_ActiveFeesCovered == disputeBalance >= ActiveDisputeFees

CreatedAmounts ==
    SumFn([o \in OrderIds |->
             IF OrderCreated(o) /\ orders[o].status = "Created"
             THEN orders[o].amount ELSE 0],
          OrderIds)

\* C28: as long as emergencyWithdraw of the marketplace has not been called,
\* the marketplace holds at least the amounts of the Created orders plus
\* twice the amounts of the Funded orders, so confirmReceipt and cancelOrder
\* do not fail for lack of funds.
C28_MarketCoversOrders ==
    /\ marketBalance >= CreatedAmounts + 2 * FundedAmounts
    /\ \A o \in OrderIds :
         /\ orders[o].status = "Funded" =>
              ConfirmReceiptAccepted(orders[o].buyer, o)
         /\ OrderCreated(o) /\ orders[o].status = "Created" =>
              CancelOrderAccepted(orders[o].seller, o)

\* One order has just been confirmed or cancelled while another one, of
\* positive amount, is Funded.
C28_Witness ==
    /\ lastCall.fn \in {"confirmReceipt", "cancelOrder"}
    /\ \E o \in OrderIds :
         /\ o # lastCall.id
         /\ orders[o].status = "Funded"
         /\ orders[o].amount > 0

\* C29: a dispute is Resolved exactly when its winner is Buyer or Seller, its
\* resolution text is non-empty and its resolvedAt is set; every dispute in
\* Open, UnderReview or Cancelled has winner None.
C29_ResolvedIffWinner ==
    \A d \in DisputeIds :
        DisputeExists(d) =>
            /\ disputes[d].status = "Resolved" <=>
                 /\ disputes[d].winner \in {"Buyer", "Seller"}
                 /\ disputes[d].resolution # ""
                 /\ disputes[d].resolvedAt # 0
            /\ disputes[d].status # "Resolved" => disputes[d].winner = "None"

\* A score raised by credit and capped at 1000.
Credited(score, credit) ==
    IF score + credit > MaxScore THEN MaxScore ELSE score + credit

\* C30: a successful confirmReceipt raises the seller's score by
\* REPUTATION_PER_SUCCESS (10) and the buyer's score by half of it (5), each
\* capped at 1000, so both scores increase unless they are at the cap.
C30_ConfirmCredits ==
    [][\A o \in OrderIds :
         Called("confirmReceipt") /\ lastCall'.id = o =>
           LET seller == orders[o].seller
               buyer == orders[o].buyer
           IN  /\ reputations'[seller].score =
                    Credited(reputations[seller].score, REPUTATION_PER_SUCCESS)
               /\ reputations'[buyer].score =
                    Credited(reputations[buyer].score,
                             REPUTATION_PER_SUCCESS \div 2)
               /\ reputations[seller].score < MaxScore =>
                    reputations'[seller].score > reputations[seller].score
               /\ reputations[buyer].score < MaxScore =>
                    reputations'[buyer].score > reputations[buyer].score]_vars

\* A veteran seller and a new buyer have just been credited: the seller is
\* capped at 1000, the buyer has moved from 50 to 55.
C30_Witness ==
    /\ lastCall.fn = "confirmReceipt"
    /\ orders[lastCall.id].status = "Confirmed"
    /\ reputations[orders[lastCall.id].seller].score = MaxScore
    /\ reputations[orders[lastCall.id].seller].successfulOrders = 91
    /\ reputations[orders[lastCall.id].buyer].score =
         INITIAL_REPUTATION + REPUTATION_PER_SUCCESS \div 2

\* C30 as stated: the seller's and the buyer's score rise by the same delta
\* unless capped at 1000.
C30_AsStated ==
    [][\A o \in OrderIds :
         Called("confirmReceipt") /\ lastCall'.id = o =>
           LET seller == orders[o].seller
               buyer == orders[o].buyer
           IN  /\ reputations'[seller].score > reputations[seller].score
                    \/ reputations'[seller].score = MaxScore
               /\ reputations'[buyer].score > reputations[buyer].score
                    \/ reputations'[buyer].score = MaxScore
               /\ (reputations'[seller].score < MaxScore
                     /\ reputations'[buyer].score < MaxScore) =>
                    reputations'[seller].score - reputations[seller].score
                      = reputations'[buyer].score - reputations[buyer].score]_vars

\* The first evidence entry of dispute d is what raiseDispute recorded.
FirstEvidenceIsReason(d) ==
    /\ Len(disputeEvidence[d]) >= 1
    /\ disputeEvidence[d][1].submitter = disputes[d].disputer
    /\ disputeEvidence[d][1].evidenceHash = disputes[d].evidenceHash
    /\ disputeEvidence[d][1].description = disputes[d].reason

\* C31: an accepted submitEvidence appends exactly one entry to the end of
\* the dispute's evidence list and changes nothing else; it is accepted only
\* while the dispute is Open or UnderReview. No evidence list is ever
\* shortened or rewritten, and its first entry is always the disputer's
\* reason and evidenceHash from raiseDispute.
C31_EvidenceAppendOnly ==
    [][/\ \A d \in DisputeIds :
            Called("submitEvidence") /\ lastCall'.id = d =>
              /\ disputes[d].status \in {"Open", "UnderReview"}
              /\ Len(disputeEvidence'[d]) = Len(disputeEvidence[d]) + 1
              /\ disputeEvidence'[d][Len(disputeEvidence'[d])].submitter
                   = lastCall'.sender
              /\ \A e \in DisputeIds \ {d} :
                   disputeEvidence'[e] = disputeEvidence[e]
              /\ UNCHANGED <<marketVars, nextDisputeId, disputes,
                             orderToDispute, authorizedArbitrators,
                             mainArbitrator, disputeFee,
                             arbitratorResolutionCount, disputeBalance>>
              /\ transfers' = <<>>
       /\ \A d \in DisputeIds :
            /\ Len(disputeEvidence'[d]) >= Len(disputeEvidence[d])
            /\ SubSeq(disputeEvidence'[d], 1, Len(disputeEvidence[d]))
                 = disputeEvidence[d]
            /\ DisputeExists(d)' => FirstEvidenceIsReason(d)'
            /\ ~DisputeExists(d)' => disputeEvidence'[d] = <<>>]_vars

\* Evidence has just been added to a dispute under review, after the
\* disputer's first entry.
C31_Witness ==
    /\ lastCall.fn = "submitEvidence"
    /\ DisputeExists(lastCall.id)
    /\ disputes[lastCall.id].status = "UnderReview"
    /\ Len(disputeEvidence[lastCall.id]) = 2
    /\ FirstEvidenceIsReason(lastCall.id)
    /\ disputeEvidence[lastCall.id][2].submitter = lastCall.sender

\* C32: platformFeePercent is at most 1000 in every reachable state; only
\* the owner changes it, through setPlatformFee, and a setPlatformFee with a
\* value above 1000 or by a non-owner is rejected and leaves the fee as it
\* was.
C32_FeeCapped ==
    [][/\ platformFeePercent <= MaxFeePercent
       /\ platformFeePercent' <= MaxFeePercent
       /\ platformFeePercent' # platformFeePercent =>
            /\ Called("setPlatformFee")
            /\ lastCall'.sender = Owner
            /\ platformFeePercent' = lastCall'.id
       /\ ( /\ txCount' = txCount + 1
            /\ lastCall'.fn = "setPlatformFee"
            /\ (lastCall'.sender # Owner \/ lastCall'.id > MaxFeePercent) ) =>
            /\ ~lastCall'.ok
            /\ platformFeePercent' = platformFeePercent]_vars

\* The owner has just been refused a fee above the cap while the fee is at
\* the cap.
C32_Witness ==
    /\ lastCall.fn = "setPlatformFee"
    /\ lastCall.sender = Owner
    /\ lastCall.id > MaxFeePercent
    /\ ~lastCall.ok
    /\ platformFeePercent = MaxFeePercent


\* The entry submitEvidence has just appended to the dispute it was called on.
SubmittedEntry ==
    disputeEvidence'[lastCall'.id][Len(disputeEvidence'[lastCall'.id])]

\* The dispute raiseDispute has just created.
RaisedDispute == disputes'[nextDisputeId]

\* C33: submitEvidence with an empty evidence hash or an empty description
\* is rejected and appends nothing, so every entry it appends has both;
\* raiseDispute with an empty reason, an empty evidence hash or a fee below
\* disputeFee is rejected, so every dispute it creates has a reason, an
\* evidence hash and a fee of at least disputeFee.
C33_EmptyInputsRejected ==
    [][/\ Called("submitEvidence") =>
            /\ SubmittedEntry.evidenceHash # ""
            /\ SubmittedEntry.description # ""
       /\ Called("raiseDispute") =>
            /\ RaisedDispute.reason # ""
            /\ RaisedDispute.evidenceHash # ""
            /\ RaisedDispute.disputeFee >= disputeFee]_vars


\* C37: mainArbitrator is an authorized arbitrator in every reachable state:
\* removeArbitrator never takes the main arbitrator off the list and
\* setMainArbitrator, called with the current main arbitrator included,
\* leaves the address it was called with as the authorized main arbitrator;
\* the address removeArbitrator was called with is no arbitrator afterwards,
\* and resolveDispute and updateDisputeStatus are executed for arbitrators
\* only.
C37_MainArbitratorAuthorized ==
    [][/\ mainArbitrator \in authorizedArbitrators
       /\ mainArbitrator' \in authorizedArbitrators'
       /\ Called("removeArbitrator") =>
            /\ lastCall'.id # mainArbitrator'
            /\ lastCall'.id \notin authorizedArbitrators'
       /\ Called("setMainArbitrator") =>
            /\ mainArbitrator' = lastCall'.id
            /\ lastCall'.id \in authorizedArbitrators'
       /\ (Called("resolveDispute") \/ Called("updateDisputeStatus")) =>
            OnlyArbitrator(lastCall'.sender)]_vars

\* An arbitrator has just been removed under a main arbitrator other than
\* the first one, after a dispute was raised.
C37_Witness ==
    /\ lastCall.fn = "removeArbitrator"
    /\ lastCall.ok
    /\ lastCall.id \notin authorizedArbitrators
    /\ mainArbitrator # Owner
    /\ mainArbitrator \in authorizedArbitrators
    /\ nextDisputeId > 0


\* C34: in the permissioned marketplace createOrder is executed only for a
\* caller in approvedSellers and fundOrder only for a caller in
\* approvedBuyers; the address revokeSeller or revokeBuyer was called with
\* is not approved afterwards; the owner is approved in both roles.
C34_OnlyApprovedTrade ==
    [][/\ Called("createOrder") => lastCall'.sender \in approvedSellers
       /\ Called("fundOrder") => lastCall'.sender \in approvedBuyers
       /\ Called("revokeSeller") => lastCall'.id \notin approvedSellers'
       /\ Called("revokeBuyer") => lastCall'.id \notin approvedBuyers'
       /\ owner \in approvedSellers \cap approvedBuyers
       /\ owner' \in approvedSellers' \cap approvedBuyers']_vars

\* A later owner, who has revoked the deployer as a seller, has just created
\* an order.
C34_Witness ==
    /\ lastCall.fn = "createOrder"
    /\ lastCall.sender = owner
    /\ owner # Owner
    /\ Owner \notin approvedSellers
    /\ owner \in approvedSellers \cap approvedBuyers

\* Revoking the approved address is not refused to the owner.
CanRevoke(account, approved, total) ==
    account \in approved /\ account # owner =>
        RevokeAccepted(owner, account, approved, total)

\* C35: in the permissioned marketplace totalApprovedSellers is the number
\* of addresses whose approvedSellers flag is true and totalApprovedBuyers
\* the number whose approvedBuyers flag is true, whatever permission
\* functions were called, so that revoking an approved address other than
\* the owner is never refused.
C35_CountersMatchFlags ==
    /\ totalApprovedSellers = Cardinality(approvedSellers)
    /\ totalApprovedBuyers = Cardinality(approvedBuyers)
    /\ \A a \in Users :
         /\ CanRevoke(a, approvedSellers, totalApprovedSellers)
         /\ CanRevoke(a, approvedBuyers, totalApprovedBuyers)

\* C36: in the permissioned marketplace confirmReceipt by the buyer of an
\* order is accepted in every reachable state in which the order is Funded,
\* also after the buyer's approval was revoked.
C36_FundedCanBeConfirmed ==
    \A o \in OrderIds :
        OrderCreated(o) /\ orders[o].status = "Funded" =>
            PermissionedConfirmReceiptAccepted(orders[o].buyer, o)


\* C38: an event handed to its handler again, right after it was handled,
\* leaves the rows of orders, users, events and reputation_history as the
\* first handling left them.
C38_RedeliveryChangesNothing ==
    [][( /\ txCount' = txCount + 1
         /\ lastCall'.fn = lastCall.fn
         /\ lastCall'.id = lastCall.id ) =>
            UNCHANGED <<dbOrders, dbUsers, dbEvents, dbReputationHistory>>]_vars

=============================================================================
